---- MODULE Spec2Model ----
(***************************************************************************)
(* EpicTok dashboard (src/app.py): the job queue, the request handler that *)
(* submits jobs (generate), the background worker (job_worker) and the     *)
(* pipeline it runs for each job (process_job), with the project store     *)
(* (save_project and the files the generators write).                      *)
(*                                                                         *)
(* Threads: one request thread per call of generate and the worker         *)
(* threads started at import time.  Every assignment to the shared         *)
(* dictionary job_status, every queue operation, every file operation and  *)
(* every call of an external generator is one step, so the model contains  *)
(* every interleaving of the request threads with the worker.              *)
(***************************************************************************)
EXTENDS Integers, Sequences, FiniteSets, TLC

(***************************************************************************)
(* Bounds of the model.                                                    *)
(***************************************************************************)
\* number of calls of generate in one behaviour
MaxJobs == 2
\* the wall clock runs from second 0 to second MaxClock
MaxClock == 1
\* number of values random.randint(1000, 9999) is drawn from
RandSpan == 1

(***************************************************************************)
(* Program constants.                                                      *)
(***************************************************************************)
\* variant of NumWorkers: a second worker thread is started
NumWorkersTwo == 1 + 1
\* threading.Thread(target=job_worker, ...) is created and started once
NumWorkers == 1
\* random.randint(1000, 9999): the lower end of the range
RandLo == 1000
\* [:50] in save_project
SafeTitleLen == 50

Workers == 1..NumWorkers
Rands == RandLo..(RandLo + RandSpan - 1)

(***************************************************************************)
(* The clock is modelled in whole seconds, which is what                   *)
(* datetime.now().strftime("%Y%m%d_%H%M%S") keeps of an instant: two reads *)
(* within one second give the same timestamp.                              *)
(***************************************************************************)

(***************************************************************************)
(* Titles are sequences of characters.  str.isalnum() holds of the         *)
(* characters of Alnum; the characters save_project also keeps are Kept.   *)
(***************************************************************************)
Alnum == {"a", "b"}
Kept == {" ", "-", "_"}

RECURSIVE Filter(_)
\* "".join(c for c in title if c.isalnum() or c in (' ', '-', '_'))
Filter(s) ==
  IF s = <<>> THEN <<>>
  ELSE IF Head(s) \in Alnum \cup Kept
       THEN <<Head(s)>> \o Filter(Tail(s))
       ELSE Filter(Tail(s))

RECURSIVE RStrip(_)
\* str.rstrip(): drops the trailing white space
RStrip(s) ==
  IF s = <<>> THEN <<>>
  ELSE IF s[Len(s)] = " " THEN RStrip(SubSeq(s, 1, Len(s) - 1)) ELSE s

\* s[:n]
Prefix(s, n) == SubSeq(s, 1, IF Len(s) < n THEN Len(s) ELSE n)

\* str.replace(' ', '_')
ReplaceSpace(s) == [i \in 1..Len(s) |-> IF s[i] = " " THEN "_" ELSE s[i]]

\* safe_title of save_project
SafeTitle(title) == ReplaceSpace(Prefix(RStrip(Filter(title)), SafeTitleLen))

(***************************************************************************)
(* get_historical_event(): the fact records it may return (from Wikipedia  *)
(* or from the fallback list); it never raises.                            *)
(***************************************************************************)
Events ==
  { [title |-> <<"a", " ", "b", "!">>, year |-> "1453"],
    [title |-> <<"a", "_", "b", " ">>, year |-> "Unknown"] }

\* f"job_{timestamp}_{random}"
JobId(t, r) == <<t, r>>
\* f"{timestamp}_{safe_title}"
ProjectId(t, title) == <<t, SafeTitle(title)>>

VARIABLES
  now,         \* the wall clock at its last read, in seconds
  job_queue,   \* Queue(): the (job_id, use_nova) tuples not yet taken
  job_status,  \* the dictionary job_status: job id -> Job Status Record
  fs,          \* PROJECTS_DIR: project id -> its metadata record and files
  req,         \* the request threads, one per call of generate
  wk,          \* the worker threads: position and locals of job_worker/process_job
  hist,        \* per submission: what process_job did (calls made, outcome)
  taken,       \* the submissions in the order job_queue.get() returned them
  resp         \* the response of get_status, if the last step was a call of it

vars == <<now, job_queue, job_status, fs, req, wk, hist, taken, resp>>

\* the last step was not a call of get_status
NoResponse == <<>>

\* a record (a Python dict or the locals of a frame) with key f bound to v
Bind(r, f, v) == [k \in DOMAIN r \cup {f} |-> IF k = f THEN v ELSE r[k]]

\* job_status[job_id] = rec
SetStatus(job_id, rec) ==
  [k \in DOMAIN job_status \cup {job_id} |-> IF k = job_id THEN rec ELSE job_status[k]]

(***************************************************************************)
(* The Job Status Records process_job and generate write.  A message is a  *)
(* sequence of strings: the fixed text and, for a failure, the reason the  *)
(* generator returned.                                                     *)
(***************************************************************************)
Rec(status, progress, message) ==
  [status |-> status, progress |-> progress, message |-> message]

RecWithProject(status, progress, message, metadata) ==
  [status |-> status, progress |-> progress, message |-> message,
   project_id |-> metadata.id, title |-> metadata.title, year |-> metadata.year]

QueuedRec == Rec("queued", 0, <<"Queued...">>)
StartingRec == Rec("starting", 0, <<"Starting...">>)
FetchingRec == Rec("fetching", 10, <<"Fetching historical event...">>)
ScriptingRec == Rec("scripting", 20, <<"Generating script...">>)
SavingRec == Rec("saving", 30, <<"Creating project...">>)
ImageRec == Rec("image", 50, <<"Generating image with AI...">>)
\* variant of ImageFailedRec: reports the checkpoint of the step before
ImageFailedRecBad(img_result) == Rec("error", 30, <<"Image failed: ", img_result>>)
ImageFailedRec(img_result) == Rec("error", 50, <<"Image failed: ", img_result>>)
VoiceRec == Rec("voice", 70, <<"Generating voiceover...">>)
\* variant of VoiceFailedRec: reports the checkpoint of the step before
VoiceFailedRecBad(voice_result) == Rec("error", 50, <<"Voice failed: ", voice_result>>)
VoiceFailedRec(voice_result) == Rec("error", 70, <<"Voice failed: ", voice_result>>)
VideoNovaRec == Rec("video", 85, <<"Generating AI video with Nova (2-5 min)...">>)
VideoLocalRec == Rec("video", 90, <<"Assembling video...">>)
VideoFailedRec(video_result) == Rec("error", 90, <<"Video failed: ", video_result>>)
\* variant of CompletedRec: the three project keys are left out
CompletedRecBad(metadata) == Rec("completed", 100, <<"Video complete!">>)
CompletedRec(metadata) == RecWithProject("completed", 100, <<"Video complete!">>, metadata)
ManualRec(metadata) ==
  RecWithProject("manual", 100, <<"Project ready - add image and voiceover">>, metadata)
ExceptionRec(e) == Rec("error", 0, <<e>>)

\* the metadata dict save_project builds and dumps to metadata.json
NewMetadata(event, t) ==
  [id |-> ProjectId(t, event.title), title |-> event.title, year |-> event.year,
   created_at |-> t, status |-> "created"]

\* the files of project directory pid ({} when the directory does not exist)
Files(pid) == IF pid \in DOMAIN fs THEN fs[pid].files ELSE {}

\* the project directory pid with metadata.json replaced and files added
WriteProject(pid, metadata, files) ==
  [k \in DOMAIN fs \cup {pid} |->
     IF k = pid THEN [metadata |-> metadata, files |-> Files(pid) \cup files]
     ELSE fs[k]]

\* the project directory pid with files added, metadata.json untouched
AddFiles(pid, files) ==
  [fs EXCEPT ![pid] = [@ EXCEPT !.files = @ \cup files]]

Init ==
  /\ now = 0
  /\ job_queue = <<>>
  /\ job_status = <<>>
  /\ fs = <<>>
  /\ req = <<>>
  /\ wk = [w \in Workers |-> [pc |-> "l423"]]
  /\ hist = <<>>
  /\ taken = <<>>
  /\ resp = NoResponse

\* datetime.now(): the clock never runs backwards between two reads; the
\* instants a read may return are the ones from the last read up to MaxClock
Clock == now..MaxClock

(***************************************************************************)
(* generate(): the request thread of one POST /api/generate.               *)
(***************************************************************************)
\* lines 463-467: read use_nova from the body (its auto_generate key is not
\* read), build the job id from the clock and a random number, and enqueue.
\* The id is local to the thread until the put, so this is one step.
generate_put ==
  /\ Len(req) < MaxJobs
  /\ \E use_nova \in BOOLEAN, auto_generate \in BOOLEAN, r \in Rands, t \in Clock :
       LET job_id == JobId(t, r)
           sub == Len(req) + 1
       IN /\ job_queue' = Append(job_queue,
                                 [job_id |-> job_id, use_nova |-> use_nova, sub |-> sub])
          /\ req' = Append(req, [pc |-> "l468", job_id |-> job_id,
                                 use_nova |-> use_nova, auto_generate |-> auto_generate])
          /\ hist' = Append(hist, [trace |-> <<>>, result |-> "none", saved |-> {}])
          /\ now' = t
  /\ resp' = NoResponse
  /\ UNCHANGED <<job_status, fs, wk, taken>>

\* line 468-469: write the queued record, then return the job id
generate_write(s) ==
  /\ req[s].pc = "l468"
  /\ job_status' = SetStatus(req[s].job_id, QueuedRec)
  /\ req' = [req EXCEPT ![s].pc = "done"]
  /\ resp' = NoResponse
  /\ UNCHANGED <<now, job_queue, fs, wk, hist, taken>>

(***************************************************************************)
(* job_worker(): take the next tuple and call process_job on it.           *)
(***************************************************************************)
\* variant of QueueFront: the newest element (a LIFO queue)
QueueFrontBad(q) == Len(q)
\* which element job_queue.get() returns: the oldest one
QueueFront(q) == 1

\* the queue without its i-th element
QueueRemove(q, i) == SubSeq(q, 1, i - 1) \o SubSeq(q, i + 1, Len(q))

\* lines 423-431: job_queue.get() blocks while the queue is empty
job_worker_get(w) ==
  /\ wk[w].pc = "l423"
  /\ job_queue # <<>>
  /\ LET job_data == job_queue[QueueFront(job_queue)]
     IN /\ wk' = [wk EXCEPT ![w] =
                    [pc |-> "l349", sub |-> job_data.sub, job_id |-> job_data.job_id,
                     use_nova |-> job_data.use_nova, auto_generate |-> TRUE]]
        /\ taken' = Append(taken, job_data.sub)
  /\ job_queue' = QueueRemove(job_queue, QueueFront(job_queue))
  /\ resp' = NoResponse
  /\ UNCHANGED <<now, job_status, fs, req, hist>>

\* line 432: process_job returned; job_queue.task_done() and loop
job_worker_task_done(w) ==
  /\ wk[w].pc = "l432"
  /\ wk' = [wk EXCEPT ![w] = [pc |-> "l423"]]
  /\ resp' = NoResponse
  /\ UNCHANGED <<now, job_queue, job_status, fs, req, hist, taken>>

(***************************************************************************)
(* process_job(job_id, auto_generate, use_nova), one step per statement    *)
(* that writes job_status or the project directory or calls a generator.   *)
(***************************************************************************)
\* worker w writes rec for its job and moves to position pc
Write(w, rec, pc) ==
  /\ job_status' = SetStatus(wk[w].job_id, rec)
  /\ wk' = [wk EXCEPT ![w].pc = pc]

\* the call `step` of the job of worker w returned ok
Log(w, step, ok) ==
  [hist EXCEPT ![wk[w].sub].trace = Append(@, <<step, ok>>)]

\* process_job returns with `status` as the last status it wrote
Return(h, w, status) == [h EXCEPT ![wk[w].sub].result = status]

\* line 349
process_job_starting(w) ==
  /\ wk[w].pc = "l349"
  /\ Write(w, StartingRec, "l353")
  /\ resp' = NoResponse
  /\ UNCHANGED <<now, job_queue, fs, req, hist, taken>>

\* line 353
process_job_fetching(w) ==
  /\ wk[w].pc = "l353"
  /\ Write(w, FetchingRec, "l354")
  /\ resp' = NoResponse
  /\ UNCHANGED <<now, job_queue, fs, req, hist, taken>>

\* line 354: get_historical_event() returns some fact record
process_job_fetch(w) ==
  /\ wk[w].pc = "l354"
  /\ \E event \in Events :
       wk' = [wk EXCEPT ![w] = Bind([@ EXCEPT !.pc = "l357"], "event", event)]
  /\ hist' = Log(w, "fetch", TRUE)
  /\ resp' = NoResponse
  /\ UNCHANGED <<now, job_queue, job_status, fs, req, taken>>

\* lines 357-358: the scripting record, then generate_script (pure, local)
process_job_scripting(w) ==
  /\ wk[w].pc = "l357"
  /\ Write(w, ScriptingRec, "l361")
  /\ hist' = Log(w, "script", TRUE)
  /\ resp' = NoResponse
  /\ UNCHANGED <<now, job_queue, fs, req, taken>>

\* line 361
process_job_saving(w) ==
  /\ wk[w].pc = "l361"
  /\ Write(w, SavingRec, "l362")
  /\ resp' = NoResponse
  /\ UNCHANGED <<now, job_queue, fs, req, hist, taken>>

\* the locals of worker w after save_project returned (project_dir, metadata)
Saved(w, metadata, pc) ==
  [wk EXCEPT ![w] =
     Bind(Bind([@ EXCEPT !.pc = pc], "project_dir", metadata.id), "metadata", metadata)]

\* the locals of worker w after an exception was raised: control is at line 417
Raised(w, e) == [wk EXCEPT ![w] = Bind([@ EXCEPT !.pc = "l418"], "e", e)]

\* line 362: save_project(event, script).  It creates the directory if need
\* be and overwrites metadata.json and script.txt, or a file operation raises.
process_job_save(w) ==
  /\ wk[w].pc = "l362"
  /\ \E t \in Clock :
       LET metadata == NewMetadata(wk[w].event, t)
           sub == wk[w].sub
       IN /\ now' = t
          /\ \/ \* everything written
                /\ fs' = WriteProject(metadata.id, metadata, {"script.txt"})
                /\ wk' = Saved(w, metadata, "l364")
                /\ hist' = [Log(w, "save", TRUE) EXCEPT ![sub].saved = @ \cup {metadata.id}]
             \/ \* mkdir or open raises: nothing written
                /\ fs' = fs
                /\ wk' = Raised(w, "OSError")
                /\ hist' = Log(w, "save", FALSE)
  /\ resp' = NoResponse
  /\ UNCHANGED <<job_queue, job_status, req, taken>>

\* lines 364-366 and 407-415: the image record, or the manual record
process_job_after_save(w) ==
  /\ wk[w].pc = "l364"
  /\ IF wk[w].auto_generate
     THEN /\ Write(w, ImageRec, "l367")
          /\ hist' = hist
     ELSE /\ Write(w, ManualRec(wk[w].metadata), "l432")
          /\ hist' = Return(hist, w, "manual")
  /\ resp' = NoResponse
  /\ UNCHANGED <<now, job_queue, fs, req, taken>>

\* worker w called generator `step`, which wrote `files` if it succeeded
Call(w, step, success, result, files, pc) ==
  /\ wk' = [wk EXCEPT ![w] =
              Bind(Bind([@ EXCEPT !.pc = pc], "success", success), "result", result)]
  /\ fs' = IF success THEN AddFiles(wk[w].project_dir, files) ELSE fs
  /\ hist' = Log(w, step, success)
  /\ resp' = NoResponse
  /\ UNCHANGED <<now, job_queue, job_status, req, taken>>

\* line 367: generate_image(project_dir, prompt) writes scene.jpg or fails
process_job_generate_image(w) ==
  /\ wk[w].pc = "l367"
  /\ \/ Call(w, "image", TRUE, "scene.jpg", {"scene.jpg"}, "l369")
     \/ Call(w, "image", FALSE, "Image API Error", {}, "l369")

\* variant of AfterImageFailed: the return is missing, the voice step follows
AfterImageFailedBad == "l375"
\* where process_job goes after a failed image step: it returns
AfterImageFailed == "l432"

\* lines 369-374: the error record and return, or the voice record
process_job_after_image(w) ==
  /\ wk[w].pc = "l369"
  /\ IF ~wk[w].success
     THEN /\ Write(w, ImageFailedRec(wk[w].result), AfterImageFailed)
          /\ hist' = Return(hist, w, "error")
     ELSE /\ Write(w, VoiceRec, "l375")
          /\ hist' = hist
  /\ resp' = NoResponse
  /\ UNCHANGED <<now, job_queue, fs, req, taken>>

\* line 375: generate_voiceover(project_dir, script) writes voiceover.mp3 or fails
process_job_generate_voiceover(w) ==
  /\ wk[w].pc = "l375"
  /\ \/ Call(w, "voice", TRUE, "voiceover.mp3", {"voiceover.mp3"}, "l377")
     \/ Call(w, "voice", FALSE, "No API key", {}, "l377")

\* variant of AfterVoiceFailed: the return is missing, the video step follows
AfterVoiceFailedBad == "l387"
\* where process_job goes after a failed voice step: it returns
AfterVoiceFailed == "l432"

\* lines 377-386: the error record and return, or the video record of the backend
process_job_after_voice(w) ==
  /\ wk[w].pc = "l377"
  /\ IF ~wk[w].success
     THEN /\ Write(w, VoiceFailedRec(wk[w].result), AfterVoiceFailed)
          /\ hist' = Return(hist, w, "error")
     ELSE /\ IF wk[w].use_nova
             THEN Write(w, VideoNovaRec, "l384")
             ELSE Write(w, VideoLocalRec, "l387")
          /\ hist' = hist
  /\ resp' = NoResponse
  /\ UNCHANGED <<now, job_queue, fs, req, taken>>

\* line 384: create_video_with_nova(project_dir) needs voiceover.mp3
process_job_create_video_with_nova(w) ==
  /\ wk[w].pc = "l384"
  /\ \/ /\ "voiceover.mp3" \in Files(wk[w].project_dir)
        /\ Call(w, "video_nova", TRUE, "final_video.mp4", {"final_video.mp4"}, "l389")
     \/ Call(w, "video_nova", FALSE, "Nova generation failed", {}, "l389")

\* line 387: create_video(project_dir) needs scene.jpg and voiceover.mp3
process_job_create_video(w) ==
  /\ wk[w].pc = "l387"
  /\ \/ /\ {"scene.jpg", "voiceover.mp3"} \subseteq Files(wk[w].project_dir)
        /\ Call(w, "video_local", TRUE, "final_video.mp4", {"final_video.mp4"}, "l389")
     \/ Call(w, "video_local", FALSE, "ffmpeg failed", {}, "l389")

\* lines 389-391: the video step failed
process_job_video_failed(w) ==
  /\ wk[w].pc = "l389"
  /\ ~wk[w].success
  /\ Write(w, VideoFailedRec(wk[w].result), "l432")
  /\ hist' = Return(hist, w, "error")
  /\ resp' = NoResponse
  /\ UNCHANGED <<now, job_queue, fs, req, taken>>

\* the metadata dict after lines 394-395
CompletedMetadata(metadata, t) ==
  Bind(Bind(metadata, "status", "completed"), "completed_at", t)

\* lines 394-397: the video step succeeded; metadata.json is rewritten
process_job_update_metadata(w) ==
  /\ wk[w].pc = "l389"
  /\ wk[w].success
  /\ \E t \in Clock :
       LET metadata == CompletedMetadata(wk[w].metadata, t)
           pid == wk[w].project_dir
       IN /\ now' = t
          /\ \/ \* written
                /\ fs' = WriteProject(pid, metadata, {})
                /\ wk' = [wk EXCEPT ![w] = [@ EXCEPT !.pc = "l399", !.metadata = metadata]]
                /\ hist' = Log(w, "update", TRUE)
             \/ \* open raises: the file is as it was
                /\ fs' = fs
                /\ wk' = Raised(w, "OSError")
                /\ hist' = Log(w, "update", FALSE)
  /\ resp' = NoResponse
  /\ UNCHANGED <<job_queue, job_status, req, taken>>

\* lines 399-406
process_job_completed(w) ==
  /\ wk[w].pc = "l399"
  /\ Write(w, CompletedRec(wk[w].metadata), "l432")
  /\ hist' = Return(hist, w, "completed")
  /\ resp' = NoResponse
  /\ UNCHANGED <<now, job_queue, fs, req, taken>>

\* variant of AfterExcept: the exception leaves process_job and job_worker,
\* and the worker thread ends
AfterExceptBad == "dead"
\* where process_job goes after the catch-all wrote its record: it returns
AfterExcept == "l432"

\* lines 417-418: the catch-all
process_job_except(w) ==
  /\ wk[w].pc = "l418"
  /\ Write(w, ExceptionRec(wk[w].e), AfterExcept)
  /\ hist' = Return(hist, w, "error")
  /\ resp' = NoResponse
  /\ UNCHANGED <<now, job_queue, fs, req, taken>>

process_job(w) ==
  \/ process_job_starting(w)
  \/ process_job_fetching(w)
  \/ process_job_fetch(w)
  \/ process_job_scripting(w)
  \/ process_job_saving(w)
  \/ process_job_save(w)
  \/ process_job_after_save(w)
  \/ process_job_generate_image(w)
  \/ process_job_after_image(w)
  \/ process_job_generate_voiceover(w)
  \/ process_job_after_voice(w)
  \/ process_job_create_video_with_nova(w)
  \/ process_job_create_video(w)
  \/ process_job_video_failed(w)
  \/ process_job_update_metadata(w)
  \/ process_job_completed(w)
  \/ process_job_except(w)

Next ==
  \/ generate_put
  \/ \E s \in DOMAIN req : generate_write(s)
  \/ \E w \in Workers :
       \/ job_worker_get(w)
       \/ process_job(w)
       \/ job_worker_task_done(w)

Spec == Init /\ [][Next]_vars

(***************************************************************************)
(* get_status(job_id): the request thread of one GET /api/status/<job_id>. *)
(***************************************************************************)
\* the job ids a client may ask for
PollIds == {JobId(t, r) : t \in 0..MaxClock, r \in Rands}

\* the body of an exception raised by a handler
KeyError == [error |-> "KeyError"]

\* variant of DictGet: the subscript d[k], which raises for a missing key
DictGetBad(d, k, default) == IF k \in DOMAIN d THEN d[k] ELSE KeyError
\* dict.get(k, default)
DictGet(d, k, default) == IF k \in DOMAIN d THEN d[k] ELSE default

\* {"status": "unknown"}
UnknownRec == [status |-> "unknown"]

\* line 474: one read of job_status; the body goes back to the client
get_status(job_id) ==
  /\ resp' = <<[job_id |-> job_id, body |-> DictGet(job_status, job_id, UnknownRec)]>>
  /\ UNCHANGED <<now, job_queue, job_status, fs, req, wk, hist, taken>>

\* the program with clients polling the status of jobs
NextStatus ==
  \/ Next
  \/ \E job_id \in PollIds : get_status(job_id)

SpecStatus == Init /\ [][NextStatus]_vars

(***************************************************************************)
(* Vocabulary of the properties.                                           *)
(***************************************************************************)
TerminalStatuses == {"completed", "manual", "error"}
Terminal(rec) == rec.status \in TerminalStatuses

\* the call `step` was made for submission s / returned success / failed
Called(s, step) == \E i \in DOMAIN hist[s].trace : hist[s].trace[i][1] = step
Succeeded(s, step) == \E i \in DOMAIN hist[s].trace : hist[s].trace[i] = <<step, TRUE>>
Failed(s, step) == \E i \in DOMAIN hist[s].trace : hist[s].trace[i] = <<step, FALSE>>
VideoSteps == {"video_local", "video_nova"}

\* no thread has anything left to do: every generate returned, the queue is
\* empty and every worker is blocked in job_queue.get()
Quiescent ==
  /\ \A s \in DOMAIN req : req[s].pc = "done"
  /\ job_queue = <<>>
  /\ \A w \in Workers : wk[w].pc = "l423"

\* worker w takes the step that leaves position pc
Leaves(w, pc) == wk[w].pc = pc /\ wk'[w].pc # pc

(***************************************************************************)
(* C1.  Every submitted job ends with a record of terminal status that it  *)
(* keeps.  Stated on the final states: once every request thread has       *)
(* returned, the queue is empty and the worker is idle again, no step      *)
(* other than a new submission is possible, so the record a job has then   *)
(* is the one it keeps; the claim requires it to be terminal.              *)
(***************************************************************************)
C1_SubmittedJobEndsTerminal ==
  Quiescent =>
    \A s \in DOMAIN req :
      /\ req[s].job_id \in DOMAIN job_status
      /\ Terminal(job_status[req[s].job_id])

(***************************************************************************)
(* C2.  Terminal statuses are stable: no step changes a record whose       *)
(* status is completed, manual or error.                                   *)
(***************************************************************************)
C2_TerminalStable ==
  [][\A id \in DOMAIN job_status :
       Terminal(job_status[id]) => job_status'[id] = job_status[id]]_vars

(***************************************************************************)
(* C3.  Until a record is terminal, every write to it that is not a write  *)
(* of status error leaves its progress at least as high as it was.         *)
(***************************************************************************)
C3_ProgressNonDecreasing ==
  [][\A id \in DOMAIN job_status :
       (~Terminal(job_status[id]) /\ job_status'[id].status # "error")
         => job_status'[id].progress >= job_status[id].progress]_vars

(***************************************************************************)
(* C4.  Jobs are taken in the order they were enqueued, and from the       *)
(* moment a job is enqueued until process_job has written a terminal       *)
(* record for the job enqueued just before it, its own record exists, has  *)
(* status queued and progress 0.                                           *)
(***************************************************************************)
C4_FifoAndSecondQueued ==
  /\ \A i \in DOMAIN taken : taken[i] = i
  /\ \A a \in DOMAIN req, b \in DOMAIN req :
       (b = a + 1 /\ hist[a].result = "none")
         => /\ req[b].job_id \in DOMAIN job_status
            /\ job_status[req[b].job_id].status = "queued"
            /\ job_status[req[b].job_id].progress = 0

(***************************************************************************)
(* C5.  For a job submitted with auto_generate = false, process_job calls  *)
(* neither the image, the voice nor a video generator, and once the        *)
(* project is saved the status it ends with is manual.                     *)
(***************************************************************************)
C5_ManualWithoutGenerators ==
  \A s \in DOMAIN req :
    ~req[s].auto_generate
      => /\ \A step \in {"image", "voice"} \cup VideoSteps : ~Called(s, step)
         /\ Succeeded(s, "save") => hist[s].result \in {"none", "manual"}

\* after a failed image step: no voice or video call, and the job ends in error
C6_AfterImageFailure ==
  \A s \in DOMAIN hist :
    Failed(s, "image")
      => /\ \A step \in {"voice"} \cup VideoSteps : ~Called(s, step)
         /\ hist[s].result \in {"none", "error"}

\* the step process_job takes when generate_image returned a failure
C6_ImageFailureWrite ==
  \A w \in Workers :
    (Leaves(w, "l369") /\ ~wk[w].success)
      => /\ job_status'[wk[w].job_id].status = "error"
         /\ job_status'[wk[w].job_id].progress = 50
         /\ wk'[w].pc = "l432"
         /\ hist'[wk[w].sub].result = "error"

C7_AfterVoiceFailure ==
  \A s \in DOMAIN hist :
    Failed(s, "voice")
      => /\ Succeeded(s, "image")
         /\ \A step \in VideoSteps : ~Called(s, step)
         /\ hist[s].result \in {"none", "error"}

\* the step process_job takes when generate_voiceover returned a failure
C7_VoiceFailureWrite ==
  \A w \in Workers :
    (Leaves(w, "l377") /\ ~wk[w].success)
      => /\ job_status'[wk[w].job_id].status = "error"
         /\ job_status'[wk[w].job_id].progress = 70
         /\ wk'[w].pc = "l432"
         /\ hist'[wk[w].sub].result = "error"

C8_VideoFailureProgress ==
  [][\A w \in Workers :
       (Leaves(w, "l389") /\ ~wk[w].success)
         => /\ job_status'[wk[w].job_id].status = "error"
            /\ job_status'[wk[w].job_id].progress = IF wk[w].use_nova THEN 85 ELSE 90]_vars

(***************************************************************************)
(* C9.  A Project Record has status created right after save_project       *)
(* returned; where it has status completed, its completion timestamp is    *)
(* set and the image, voice and video steps of a job that saved it all     *)
(* succeeded; and the Project Record of a job that ended in manual or      *)
(* error does not have status completed.                                   *)
(***************************************************************************)
C9_ProjectStatus ==
  /\ \A w \in Workers :
       wk[w].pc = "l364" => fs[wk[w].project_dir].metadata.status = "created"
  /\ \A pid \in DOMAIN fs :
       fs[pid].metadata.status = "completed"
         => /\ "completed_at" \in DOMAIN fs[pid].metadata
            /\ \E s \in DOMAIN hist :
                 /\ pid \in hist[s].saved
                 /\ Succeeded(s, "image") /\ Succeeded(s, "voice")
                 /\ \E step \in VideoSteps : Succeeded(s, step)
  /\ \A s \in DOMAIN hist :
       hist[s].result \in {"manual", "error"}
         => \A pid \in hist[s].saved : fs[pid].metadata.status # "completed"

\* the submissions taken from the queue that process_job has not ended yet
InFlight ==
  {s \in DOMAIN hist : (\E i \in DOMAIN taken : taken[i] = s) /\ hist[s].result = "none"}

\* the positions at which a worker is inside a generator call
GeneratorCalls == {"l367", "l375", "l384", "l387"}

(***************************************************************************)
(* C10.  At most one job is in flight: at most one submission has been     *)
(* taken from the queue and not yet been ended by process_job, and at most *)
(* one worker is at a generator call.                                      *)
(***************************************************************************)
C10_OneJobInFlight ==
  /\ Cardinality(InFlight) <= 1
  /\ Cardinality({w \in Workers : wk[w].pc \in GeneratorCalls}) <= 1

\* a generator is running for one job while another job waits in the queue
C10_Witness ==
  /\ Cardinality(InFlight) = 1
  /\ \E w \in Workers : wk[w].pc \in GeneratorCalls
  /\ job_queue # <<>>

(***************************************************************************)
(* C11.  Every call of generate returns a job id different from the job    *)
(* id every earlier call returned, so no two submissions share one Job     *)
(* Status Record.                                                          *)
(***************************************************************************)
C11_JobIdsDistinct ==
  \A a \in DOMAIN req, b \in DOMAIN req : a # b => req[a].job_id # req[b].job_id

\* the artifacts of a finished project
Artifacts == {"scene.jpg", "voiceover.mp3", "final_video.mp4"}

(***************************************************************************)
(* C12.  A Job Status Record of status completed has progress 100 and the  *)
(* fields project_id, title and year, the Project Record it names has      *)
(* status completed and the image, voice and video files of that project   *)
(* are present; and a job whose fetch, image, voice and local compositing  *)
(* steps succeeded (and whose metadata was rewritten) is ended by          *)
(* process_job with the completed record.                                  *)
(***************************************************************************)
C12_Completed ==
  /\ \A id \in DOMAIN job_status :
       job_status[id].status = "completed"
         => /\ job_status[id].progress = 100
            /\ {"project_id", "title", "year"} \subseteq DOMAIN job_status[id]
            /\ job_status[id].project_id \in DOMAIN fs
            /\ fs[job_status[id].project_id].metadata.status = "completed"
            /\ Artifacts \subseteq fs[job_status[id].project_id].files
  /\ \A s \in DOMAIN hist :
       (Succeeded(s, "video_local") /\ Succeeded(s, "update"))
         => /\ Succeeded(s, "fetch") /\ Succeeded(s, "image") /\ Succeeded(s, "voice")
            /\ hist[s].result \in {"none", "completed"}

\* no call of generate has produced job_id so far
NeverSubmitted(job_id) == \A s \in DOMAIN req : req[s].job_id # job_id

(***************************************************************************)
(* C13.  A call of get_status for a job id that was never submitted        *)
(* returns the not-found record {"status": "unknown"}, not an exception,   *)
(* whatever the worker and the other request threads are doing, and the    *)
(* call leaves job_status as it was.                                       *)
(***************************************************************************)
C13_UnknownJob ==
  [][resp' # NoResponse
       => /\ job_status' = job_status
          /\ NeverSubmitted(resp'[1].job_id) => resp'[1].body = UnknownRec]_vars

\* get_status answered for an id nobody submitted while the worker was
\* inside a generator call and another job had its record
C13_Witness ==
  /\ resp # NoResponse
  /\ NeverSubmitted(resp[1].job_id)
  /\ resp[1].body = UnknownRec
  /\ job_status # <<>>
  /\ \E w \in Workers : wk[w].pc \in GeneratorCalls

\* the steps of process_job that can raise
RaisingSteps == {"save", "update"}

\* after a step raised: nothing further is called for the job and it ends in error
C14_AfterRaise ==
  \A s \in DOMAIN hist :
    \A step \in RaisingSteps :
      Failed(s, step)
        => /\ hist[s].trace[Len(hist[s].trace)] = <<step, FALSE>>
           /\ hist[s].result \in {"none", "error"}

\* a step that raises hands control to the catch-all, which writes the error
\* record with progress 0 and the exception text, and process_job returns
C14_CatchAll ==
  \A w \in Workers :
    /\ (wk[w].pc \in {"l362", "l389"} /\ hist'[wk[w].sub].trace # hist[wk[w].sub].trace
          /\ ~hist'[wk[w].sub].trace[Len(hist'[wk[w].sub].trace)][2])
         => (wk'[w].pc = "l418" /\ "e" \in DOMAIN wk'[w])
    /\ Leaves(w, "l418")
         => /\ job_status'[wk[w].job_id] = Rec("error", 0, <<wk[w].e>>)
            /\ wk'[w].pc = "l432"
            /\ hist'[wk[w].sub].result = "error"

\* a step of worker thread w
WorkerStep(w) == job_worker_get(w) \/ process_job(w) \/ job_worker_task_done(w)

\* the worker waits for nothing but a job: it can take a step unless it is
\* at job_queue.get() with the queue empty
C14_Running ==
  \A w \in Workers :
    (wk[w].pc # "l423" \/ job_queue # <<>>) => ENABLED WorkerStep(w)

\* after process_job returned the worker is back at job_queue.get(), and its
\* next step there starts the job at the head of the queue, which nobody
\* else removes
C14_Resumes ==
  \A w \in Workers :
    /\ Leaves(w, "l432") => wk'[w].pc = "l423"
    /\ Leaves(w, "l423")
         => /\ wk'[w].pc = "l349"
            /\ wk'[w].sub = job_queue[1].sub
            /\ job_queue' = Tail(job_queue)
    /\ ~Leaves(w, "l423") => Len(job_queue') >= Len(job_queue)

(***************************************************************************)
(* C14.  A job that raises does not block the worker: when a step of       *)
(* process_job raises, the catch-all writes status error, progress 0 and   *)
(* the exception text and process_job returns; the worker then goes back   *)
(* to job_queue.get() and, when a job is waiting, starts it.  The worker   *)
(* is never at a position where it has no step to take, other than         *)
(* waiting on the empty queue.                                             *)
(***************************************************************************)
C14_WorkerNotBlocked ==
  /\ [](C14_AfterRaise /\ C14_Running)
  /\ [][C14_CatchAll /\ C14_Resumes]_vars

\* the worker has started the second job after save_project raised in the first
C14_Witness ==
  /\ Len(hist) = 2
  /\ Failed(1, "save")
  /\ hist[1].result = "error"
  /\ req[1].job_id # req[2].job_id
  /\ job_status[req[1].job_id] = Rec("error", 0, <<"OSError">>)
  /\ \E w \in Workers : wk[w].pc = "l349" /\ wk[w].sub = 2

\* the steps of a job in the order of process_job
StepOrder == <<"fetch", "script", "save", "image", "voice", "video">>

\* the step a logged call belongs to: both video generators are the video step
StepOf(call) == IF call \in VideoSteps THEN "video" ELSE call

IsPipelineCall(e) == StepOf(e[1]) \in {StepOrder[i] : i \in DOMAIN StepOrder}

\* the calls of the six steps made for submission s, in the order they were made
PipelineTrace(s) == SelectSeq(hist[s].trace, IsPipelineCall)

(***************************************************************************)
(* C15.  For each job, the calls made so far are an initial part of        *)
(* fetch, script, save, image, voice, video, each made once, and every     *)
(* call but the last one returned success: a step is called only after     *)
(* all the steps before it succeeded, none is called twice, and nothing    *)
(* is called after a step that failed.                                     *)
(***************************************************************************)
C15_StepOrder ==
  \A s \in DOMAIN hist :
    LET tr == PipelineTrace(s)
    IN /\ Len(tr) <= Len(StepOrder)
       /\ \A i \in DOMAIN tr :
            /\ StepOf(tr[i][1]) = StepOrder[i]
            /\ i < Len(tr) => tr[i][2]

\* one job went through all six steps and another stopped at a failed step
C15_Witness ==
  \E a \in DOMAIN hist, b \in DOMAIN hist :
    /\ Len(PipelineTrace(a)) = Len(StepOrder)
    /\ \A i \in DOMAIN PipelineTrace(a) : PipelineTrace(a)[i][2]
    /\ Failed(b, "image")
    /\ hist[b].result = "error"

\* the submissions that were given job id `id`
SubmissionsOf(id) == {s \in DOMAIN req : req[s].job_id = id}

\* the progress that goes with a status other than error, for submission s
Checkpoint(status, s) ==
  CASE status \in {"queued", "starting"} -> 0
    [] status = "fetching" -> 10
    [] status = "scripting" -> 20
    [] status = "saving" -> 30
    [] status = "image" -> 50
    [] status = "voice" -> 70
    [] status = "video" -> IF req[s].use_nova THEN 85 ELSE 90
    [] status \in {"completed", "manual"} -> 100

\* the checkpoint of the step of submission s that failed, 0 when a step raised
FailedCheckpoint(s) ==
  CASE Failed(s, "image") -> Checkpoint("image", s)
    [] Failed(s, "voice") -> Checkpoint("voice", s)
    [] \E step \in VideoSteps : Failed(s, step) -> Checkpoint("video", s)
    [] OTHER -> 0

(***************************************************************************)
(* C16.  The progress of a record is fixed by its status: 0 for queued     *)
(* and starting, 10 fetching, 20 scripting, 30 saving, 50 image, 70 voice, *)
(* 85 or 90 for video on the cloud or the local backend, 100 for completed *)
(* and manual; and the progress of an error record is the checkpoint of    *)
(* the step that failed in the job that wrote it, or 0 when a step raised. *)
(***************************************************************************)
C16_ProgressByStatus ==
  \A id \in DOMAIN job_status :
    LET rec == job_status[id]
    IN \E s \in SubmissionsOf(id) :
         IF rec.status = "error"
         THEN hist[s].result = "error" /\ rec.progress = FailedCheckpoint(s)
         ELSE rec.progress = Checkpoint(rec.status, s)

\* the keys a record gets from the project's metadata
ProjectKeys == {"project_id", "title", "year"}

(***************************************************************************)
(* C17.  A Job Status Record has the keys project_id, title and year       *)
(* exactly when its status is completed or manual; a record of any other   *)
(* status has none of them, also after the job's project was saved.        *)
(***************************************************************************)
C17_ProjectKeys ==
  \A id \in DOMAIN job_status :
    IF job_status[id].status \in {"completed", "manual"}
    THEN ProjectKeys \subseteq DOMAIN job_status[id]
    ELSE ProjectKeys \cap DOMAIN job_status[id] = {}

\* one job is completed and has the keys; another has saved its project and
\* stopped in error, and its record has none of them
C17_Witness ==
  \E a \in DOMAIN req, b \in DOMAIN req :
    /\ req[a].job_id # req[b].job_id
    /\ req[a].job_id \in DOMAIN job_status /\ req[b].job_id \in DOMAIN job_status
    /\ job_status[req[a].job_id].status = "completed"
    /\ ProjectKeys \subseteq DOMAIN job_status[req[a].job_id]
    /\ job_status[req[b].job_id].status = "error"
    /\ hist[b].saved # {} /\ hist[b].saved \subseteq DOMAIN fs
    /\ ProjectKeys \cap DOMAIN job_status[req[b].job_id] = {}

(***************************************************************************)
(* C18.  Two different jobs that passed the saving step have different     *)
(* project ids, and so the Project Record of a job that ended in error is  *)
(* not completed, and its directory holds no voice or video file that the  *)
(* job did not write itself.                                               *)
(***************************************************************************)
C18_ProjectIdsDistinct ==
  /\ \A a \in DOMAIN hist, b \in DOMAIN hist :
       a # b => hist[a].saved \cap hist[b].saved = {}
  /\ \A s \in DOMAIN hist :
       hist[s].result = "error"
         => \A pid \in hist[s].saved :
              /\ fs[pid].metadata.status # "completed"
              /\ "voiceover.mp3" \in fs[pid].files => Succeeded(s, "voice")
              /\ "final_video.mp4" \in fs[pid].files
                   => \E step \in VideoSteps : Succeeded(s, step)
====
